---- MODULE Spec2Model ----
(***************************************************************************)
(* MapGuard: the interposed mmap / munmap / mprotect / mremap entry points *)
(* of src/src/mapguard.c, the mapping cache (g_map_cache_vector) they      *)
(* maintain and the guard pages they place, run against a small model of   *)
(* the address space behind the g_real_* primitives.                       *)
(*                                                                         *)
(* Addresses and lengths are machine words of WordBits bits (void *,       *)
(* size_t); a page is PageSize address units; page 0 is the NULL page and  *)
(* pages 1..NPages are the part of the address space the process can map.  *)
(***************************************************************************)
EXTENDS Integers, Sequences, FiniteSets, TLC

\* ---------------------------------------------------------------- bounds
NPages == 3
MaxRecords == 2
MaxLen == 4
MaxOps == 3
WordBits == 5

\* ------------------------------------------------------ program constants
PageSize == 2
OK == 0
ERROR == -1
PROT_NONE == 0
PROT_READ == 1
PROT_WRITE == 2
PROT_EXEC == 4

WordMod == 2 ^ WordBits
Wrap(n) == n % WordMod
MAP_FAILED == WordMod - 1

HasBit(p, b) == (p \div b) % 2 = 1
\* The assignment "=" in place of "|=": the old bits are dropped.
BitOverwrite(a, b) == b

\* The update left out: the old value is kept as it is.
BitKeep(a, b) == a

BitOr(a, b) ==
    (IF HasBit(a, 1) \/ HasBit(b, 1) THEN 1 ELSE 0)
  + (IF HasBit(a, 2) \/ HasBit(b, 2) THEN 2 ELSE 0)
  + (IF HasBit(a, 4) \/ HasBit(b, 4) THEN 4 ELSE 0)

get_base_page(addr) == addr - (addr % PageSize)
ROUND_UP_PAGE(N) == Wrap((Wrap(N + PageSize - 1) \div PageSize) * PageSize)

\* ------------------------------------------------------------ input sets
PageIds == 1..NPages
Addrs == {PageSize * p : p \in PageIds} \cup {PageSize + 1}
Lens == 0..MaxLen
MapLens == PageSize..MaxLen
PageLens == {n \in MapLens : n % PageSize = 0}
Prots == {PROT_READ + PROT_WRITE, PROT_EXEC, PROT_WRITE + PROT_EXEC}
\* mmap's (addr, MAP_FIXED) argument: no address, or a fixed static address
Placements == {<<0, FALSE>>, <<PageSize, TRUE>>}
Fds == {-1, 3}
SrcSizes == {0, PageSize + 1}

\* The policies explored to MaxOps calls.  The others are explored to one
\* call less, and to two calls less when a violation aborts the process.
DeepPolicies ==
    {p \in [disallow_rwx : {FALSE}, disallow_transition_to_x : BOOLEAN,
            disallow_transition_from_x : BOOLEAN, disallow_static_address : {FALSE},
            enable_guard_pages : BOOLEAN, panic_on_violation : {FALSE},
            use_mapping_cache : {TRUE}] :
        Cardinality({r \in {1, 2, 3} :
            \/ r = 1 /\ p.disallow_transition_to_x
            \/ r = 2 /\ p.disallow_transition_from_x
            \/ r = 3 /\ p.enable_guard_pages}) <= 1}

VARIABLES policy, store, mem, last, aborted, nops, threads

vars == <<policy, store, mem, last, aborted, nops, threads>>

OpsBudget ==
    IF policy \in DeepPolicies THEN MaxOps
    ELSE IF policy.panic_on_violation THEN MaxOps - 2
    ELSE MaxOps - 1

\* ------------------------------------------- the address space (g_real_*)
FreePage == [kind |-> "free", prot |-> PROT_NONE, everW |-> FALSE]

NumPages(length) == ROUND_UP_PAGE(length) \div PageSize

PagesOf(addr, length) ==
    {p \in PageIds : p >= addr \div PageSize /\ p < (addr \div PageSize) + NumPages(length)}

FreeRuns(m, n) ==
    {p \in PageIds : p + n - 1 <= NPages /\ \A q \in p..(p + n - 1) : m[q].kind = "free"}

MapAt(m, p, n, prot, kind) ==
    [q \in PageIds |->
        IF q \in p..(p + n - 1)
        THEN [kind |-> kind, prot |-> prot, everW |-> HasBit(prot, PROT_WRITE)]
        ELSE m[q]]

\* mmap(2): with MAP_FIXED the mapping is placed at addr over whatever is
\* mapped there; without it the hint is honoured when the range is free and
\* otherwise the kernel picks any free range; it fails (ENOMEM, EINVAL) when
\* no range is free or the length is 0.
g_real_mmap(m, addr, length, prot, fixed, kind) ==
    LET n == NumPages(length)
        fits == FreeRuns(m, n)
        hint == addr \div PageSize
        aligned == addr # 0 /\ addr % PageSize = 0
        places == IF fixed
                  THEN (IF aligned /\ hint + n - 1 <= NPages THEN {hint} ELSE {})
                  ELSE IF aligned /\ hint \in fits THEN {hint} ELSE fits
    IN  IF length = 0 \/ places = {}
        THEN {[ret |-> MAP_FAILED, mem |-> m]}
        ELSE {[ret |-> p * PageSize, mem |-> MapAt(m, p, n, prot, kind)] : p \in places}

\* munmap(2): EINVAL for an unaligned address or a zero length, otherwise
\* every page of the range is unmapped (holes are allowed).
g_real_munmap(m, addr, length) ==
    IF addr % PageSize # 0 \/ length = 0 \/ addr + length > WordMod
    THEN [ret |-> ERROR, mem |-> m]
    ELSE [ret |-> OK,
          mem |-> [q \in PageIds |-> IF q \in PagesOf(addr, length) THEN FreePage ELSE m[q]]]

\* mprotect(2): EINVAL for an unaligned address, ENOMEM when a page of the
\* range is not mapped, otherwise the pages take the new protection.
g_real_mprotect(m, addr, len, prot) ==
    LET first == addr \div PageSize
        n == NumPages(len)
        ps == PagesOf(addr, len)
    IN  IF addr % PageSize # 0 \/ Cardinality(ps) # n
           \/ \E q \in ps : m[q].kind = "free"
        THEN [ret |-> ERROR, mem |-> m]
        ELSE [ret |-> OK,
              mem |-> [q \in PageIds |->
                         IF q \in ps
                         THEN [kind |-> m[q].kind, prot |-> prot,
                               everW |-> m[q].everW \/ HasBit(prot, PROT_WRITE)]
                         ELSE m[q]]]

\* mremap(2): the old range must be one mapping; it is resized in place when
\* it shrinks or the pages above it are free, and otherwise moved to any free
\* range (MREMAP_MAYMOVE); it fails when the old range is not one mapping or
\* no range is free.
g_real_mremap(m, addr, old_len, new_len) ==
    LET first == addr \div PageSize
        nOld == NumPages(old_len)
        nNew == NumPages(new_len)
        old == PagesOf(addr, old_len)
        valid == /\ addr % PageSize = 0 /\ old_len > 0 /\ new_len > 0
                 /\ Cardinality(old) = nOld
                 /\ \A q \in old : m[q].kind = m[first].kind /\ m[q].prot = m[first].prot
                 /\ m[first].kind # "free"
        inPlace == \/ nNew <= nOld
                   \/ /\ first + nNew - 1 <= NPages
                      /\ \A q \in (first + nOld)..(first + nNew - 1) : m[q].kind = "free"
        grown == [kind |-> m[first].kind, prot |-> m[first].prot,
                  everW |-> HasBit(m[first].prot, PROT_WRITE)]
        Moved(p) == [q \in PageIds |->
                        IF q \in p..(p + nNew - 1)
                        THEN (IF q - p < nOld THEN m[first + (q - p)] ELSE grown)
                        ELSE IF q \in old THEN FreePage ELSE m[q]]
    IN  IF ~valid \/ (~inPlace /\ FreeRuns(m, nNew) = {})
        THEN {[ret |-> MAP_FAILED, mem |-> m]}
        ELSE IF inPlace THEN {[ret |-> addr, mem |-> Moved(first)]}
        ELSE {[ret |-> p * PageSize, mem |-> Moved(p)] : p \in FreeRuns(m, nNew)}

\* ------------------------------------------------- the mapping cache
\* new_mapguard_cache_entry: a zeroed mapguard_cache_entry_t.  freed is not a
\* field of the struct: it marks an entry whose memory was passed to free()
\* while the vector still holds the pointer.
new_mapguard_cache_entry ==
    [start |-> 0, size |-> 0, guard_bottom |-> 0, guard_top |-> 0,
     immutable_prot |-> 0, current_prot |-> 0, cache_index |-> 0,
     xom_enabled |-> 0, freed |-> FALSE]

is_mapguard_entry_cached(mce, data) ==
    \/ mce.start = data
    \/ (data > mce.start /\ Wrap(mce.start + mce.size) > data)

\* vector_for_each over the cache with is_mapguard_entry_cached: the first
\* entry, in vector order, for which the callback answers.  The result is a
\* set of 1-based positions, 0 standing for NULL: the callback reads an entry
\* that was freed out of released memory, so for such an entry it may answer
\* either way.
RECURSIVE vector_for_each(_, _, _)
vector_for_each(v, data, i) ==
    IF i > Len(v) THEN {0}
    ELSE IF v[i].freed THEN {i} \cup vector_for_each(v, data, i + 1)
    ELSE IF is_mapguard_entry_cached(v[i], data) THEN {i}
    ELSE vector_for_each(v, data, i + 1)

find_entry(addr) ==
    IF policy.use_mapping_cache THEN vector_for_each(store, addr, 1) ELSE {0}

\* vector_push: appends and returns the (0-based) index of the new element.
vector_push_index(v) == Len(v)

\* vector_delete_at: removes the element at a (0-based) index and closes the
\* gap; an index outside the vector removes nothing.
vector_delete_at(v, index) ==
    IF index \in 0..(Len(v) - 1)
    THEN [k \in 1..(Len(v) - 1) |-> IF k <= index THEN v[k] ELSE v[k + 1]]
    ELSE v

\* vector_delete_at(&g_map_cache_vector, mce->cache_index); free(mce) for the
\* entry at position i: when cache_index is not the entry's position another
\* entry (or none) leaves the vector and the freed entry stays in it.
delete_and_free(v, i) ==
    LET c == v[i].cache_index
        v1 == vector_delete_at(v, c)
        j == IF c = i - 1 THEN 0
             ELSE IF c \in 0..(Len(v) - 1) /\ c + 1 < i THEN i - 1
             ELSE i
    IN  IF j = 0 THEN v1 ELSE [v1 EXCEPT ![j].freed = TRUE]

\* ------------------------------------------------------- guard pages
\* A guard page is mapped at address g.
GuardMapped(m, g) ==
    /\ g % PageSize = 0
    /\ g \div PageSize \in PageIds
    /\ m[g \div PageSize].kind = "guard"

\* The real munmap calls a guard removal issues: the address handed to
\* g_real_munmap, and whether a guard page was mapped there at that time.
guard_unmap(m, g) == <<g, GuardMapped(m, g)>>

top_guard_unmaps(m, mce) ==
    IF mce.guard_top # 0 THEN {guard_unmap(m, mce.guard_top)} ELSE {}

bottom_guard_unmaps(m, mce) ==
    IF mce.guard_bottom # 0 THEN {guard_unmap(m, mce.guard_bottom)} ELSE {}

map_guard_page(m, addr) ==
    g_real_mmap(m, get_base_page(addr), PageSize, PROT_NONE, FALSE, "guard")

unmap_top_guard_page(m, mce) ==
    IF mce.guard_top # 0 THEN g_real_munmap(m, mce.guard_top, PageSize).mem ELSE m

unmap_bottom_guard_page(m, mce) ==
    IF mce.guard_bottom # 0 THEN g_real_munmap(m, mce.guard_bottom, PageSize).mem ELSE m

unmap_guard_pages(m, mce) ==
    unmap_top_guard_page(unmap_bottom_guard_page(m, mce), mce)

guard_pages_unmaps(m, mce) ==
    bottom_guard_unmaps(m, mce) \cup top_guard_unmaps(unmap_bottom_guard_page(m, mce), mce)

map_bottom_guard_page(m, mce) ==
    {[mem |-> g.mem, mce |-> [mce EXCEPT !.guard_bottom = g.ret]] :
        g \in map_guard_page(m, get_base_page(Wrap(mce.start - 1)))}

map_top_guard_page(m, mce) ==
    {[mem |-> g.mem, mce |-> [mce EXCEPT !.guard_top = g.ret]] :
        g \in map_guard_page(m, ROUND_UP_PAGE(Wrap(mce.start + mce.size)))}

map_guard_pages(m, mce) ==
    IF mce.start = 0 /\ mce.size # 0
    THEN {[mem |-> m, mce |-> mce]}
    ELSE UNION {map_top_guard_page(b.mem, b.mce) : b \in map_bottom_guard_page(m, mce)}

\* ------------------------------------------------------ policy checks
\* The file-descriptor test left out: every request is handled as anonymous.
file_backed_ignored(fd) == FALSE

file_backed(fd) == fd # -1

\* The RWX test asking for PROT_READ as well as PROT_WRITE and PROT_EXEC.
rwx_violation_needs_read(prot) ==
    /\ policy.disallow_rwx
    /\ HasBit(prot, PROT_READ) /\ HasBit(prot, PROT_WRITE) /\ HasBit(prot, PROT_EXEC)

rwx_violation(prot) ==
    policy.disallow_rwx /\ HasBit(prot, PROT_WRITE) /\ HasBit(prot, PROT_EXEC)

static_address_violation(addr) ==
    addr # 0 /\ policy.disallow_static_address

\* The transition-to-execute test left out.
transition_to_x_violation_off(mce, prot) == FALSE

transition_to_x_violation(mce, prot) ==
    /\ policy.disallow_transition_to_x
    /\ HasBit(prot, PROT_EXEC)
    /\ HasBit(mce.immutable_prot, PROT_WRITE)

transition_from_x_violation(mce, prot) ==
    /\ policy.disallow_transition_from_x
    /\ HasBit(prot, PROT_WRITE)
    /\ HasBit(mce.immutable_prot, PROT_EXEC)

\* ------------------------------------------------- the call just made
Call(op, addr, length, prot, fixed, fd, new_len, found) ==
    [op |-> op, addr |-> addr, length |-> length, prot |-> prot, fixed |-> fixed,
     fd |-> fd, new_len |-> new_len, found |-> found,
     returned |-> TRUE, ret |-> 0, real |-> FALSE, real_ret |-> 0,
     guard_unmaps |-> {}]

Returned(call, ret, real, real_ret) ==
    [call EXCEPT !.ret = ret, !.real = real, !.real_ret = real_ret]

\* A denied request: MAYBE_PANIC aborts the process when panic_on_violation
\* is set, otherwise the call returns the failure value.
Deny(call, failure) ==
    /\ mem' = mem
    /\ store' = store
    /\ IF policy.panic_on_violation
       THEN /\ aborted' = TRUE
            /\ last' = [call EXCEPT !.returned = FALSE]
       ELSE /\ aborted' = FALSE
            /\ last' = Returned(call, failure, FALSE, 0)

Finish(call, ret, real_ret, m, s) ==
    /\ mem' = m
    /\ store' = s
    /\ aborted' = FALSE
    /\ last' = Returned(call, ret, TRUE, real_ret)

\* --------------------------------------------------------- mmap hook
\* The cache entry and guard pages of a mapping the real mmap returned.
mmap_track(m, map_ptr, length, prot) ==
    IF ~policy.use_mapping_cache
    THEN {[mem |-> m, store |-> store]}
    ELSE LET mce == [new_mapguard_cache_entry EXCEPT
                        !.start = map_ptr,
                        !.size = length,
                        !.immutable_prot = BitOr(0, prot),
                        !.current_prot = prot,
                        !.cache_index = vector_push_index(store)]
         IN  IF policy.enable_guard_pages
             THEN {[mem |-> g.mem, store |-> Append(store, g.mce)] :
                      g \in map_guard_pages(m, mce)}
             ELSE {[mem |-> m, store |-> Append(store, mce)]}

mmap_call(addr, length, prot, fixed, fd) ==
    LET call == Call("mmap", addr, length, prot, fixed, fd, 0, 0) IN
    /\ ~aborted
    /\ nops < OpsBudget
    /\ Len(store) < MaxRecords
    /\ IF file_backed(fd)
       THEN \E r \in g_real_mmap(mem, addr, length, prot, fixed, "file") :
                Finish(call, r.ret, r.ret, r.mem, store)
       ELSE IF rwx_violation(prot) THEN Deny(call, MAP_FAILED)
       ELSE IF static_address_violation(addr) THEN Deny(call, MAP_FAILED)
       ELSE \E r \in g_real_mmap(mem, addr, length, prot, fixed, "anon") :
                IF r.ret = MAP_FAILED
                THEN Finish(call, r.ret, r.ret, r.mem, store)
                ELSE \E t \in mmap_track(r.mem, r.ret, length, prot) :
                        Finish(call, r.ret, r.ret, t.mem, t.store)
    /\ nops' = nops + 1
    /\ UNCHANGED <<policy, threads>>

\* ------------------------------------------------------- munmap hook
\* The partial and exact branches of munmap on the entry mce points to, with
\* the address space m: each outcome is the value returned, the address space
\* after, the entry as it was left, whether the entry was deleted from the
\* vector and freed, and the guard pages handed to the real munmap.
munmap_on(mce, m, addr, length) ==
    IF mce.start # addr \/ mce.size # length
    THEN LET mce1 == [mce EXCEPT !.size = Wrap(mce.size - length)] IN
         IF addr > mce.start /\ length < mce1.size
         THEN LET r == g_real_munmap(unmap_top_guard_page(m, mce1), addr, length) IN
              IF r.ret = 0
              THEN {[ret |-> r.ret, mem |-> g.mem, mce |-> g.mce, deleted |-> FALSE,
                     unmaps |-> top_guard_unmaps(m, mce1)] :
                       g \in map_top_guard_page(r.mem, mce1)}
              ELSE {[ret |-> r.ret, mem |-> r.mem, mce |-> mce1, deleted |-> FALSE,
                     unmaps |-> top_guard_unmaps(m, mce1)]}
         ELSE IF mce.start = addr
         THEN LET mce2 == [mce1 EXCEPT !.start = Wrap(mce1.start + length)]
                  r == g_real_munmap(unmap_bottom_guard_page(m, mce1), addr, length)
              IN  IF r.ret = 0
                  THEN {[ret |-> r.ret, mem |-> g.mem, mce |-> g.mce, deleted |-> FALSE,
                         unmaps |-> bottom_guard_unmaps(m, mce1)] :
                           g \in map_bottom_guard_page(r.mem, mce2)}
                  ELSE {[ret |-> r.ret, mem |-> r.mem, mce |-> mce2, deleted |-> FALSE,
                         unmaps |-> bottom_guard_unmaps(m, mce1)]}
         ELSE LET r == g_real_munmap(m, addr, length) IN
              {[ret |-> r.ret, mem |-> r.mem, mce |-> mce1, deleted |-> FALSE,
                unmaps |-> {}]}
    ELSE LET r == g_real_munmap(unmap_guard_pages(m, mce), addr, length) IN
         {[ret |-> r.ret, mem |-> r.mem, mce |-> mce, deleted |-> TRUE,
           unmaps |-> guard_pages_unmaps(m, mce)]}

\* munmap on the entry found at position i of the cache.
munmap_entry(i, addr, length) ==
    {[ret |-> o.ret, mem |-> o.mem, unmaps |-> o.unmaps, deleted |-> o.deleted,
      store |-> IF o.deleted THEN delete_and_free(store, i)
                ELSE [store EXCEPT ![i] = o.mce]] :
        o \in munmap_on(store[i], mem, addr, length)}

munmap_call(addr, length) ==
    /\ ~aborted
    /\ nops < OpsBudget
    /\ \E i \in find_entry(addr) :
          LET call == Call("munmap", addr, length, 0, FALSE, -1, 0, i) IN
          IF i # 0
          THEN \E o \in munmap_entry(i, addr, length) :
                  Finish([call EXCEPT !.guard_unmaps = o.unmaps],
                         o.ret, o.ret, o.mem, o.store)
          ELSE LET r == g_real_munmap(mem, addr, length) IN
               Finish(call, r.ret, r.ret, r.mem, store)
    /\ nops' = nops + 1
    /\ UNCHANGED <<policy, threads>>

\* ----------------------------------------------------- mprotect hook
mprotect_call(addr, len, prot) ==
    /\ ~aborted
    /\ nops < OpsBudget
    /\ IF rwx_violation(prot)
       THEN Deny(Call("mprotect", addr, len, prot, FALSE, -1, 0, 0), ERROR)
       ELSE \E i \in find_entry(addr) :
               LET call == Call("mprotect", addr, len, prot, FALSE, -1, 0, i) IN
               IF /\ i # 0
                  /\ store[i].xom_enabled = 0
                  /\ \/ transition_to_x_violation(store[i], prot)
                     \/ transition_from_x_violation(store[i], prot)
               THEN Deny(call, ERROR)
               ELSE LET r == g_real_mprotect(mem, addr, len, prot) IN
                    Finish(call, r.ret, r.ret, r.mem,
                           IF r.ret = 0 /\ i # 0
                           THEN [store EXCEPT
                                    ![i].immutable_prot = BitOr(@, prot),
                                    ![i].current_prot = prot]
                           ELSE store)
    /\ nops' = nops + 1
    /\ UNCHANGED <<policy, threads>>

\* ------------------------------------------------------- mremap hook
mremap_entry(i, m, map_ptr, new_len) ==
    LET mce == store[i] IN
    IF (mce.guard_bottom # 0 \/ mce.guard_top # 0) /\ map_ptr # MAP_FAILED
    THEN LET m1 == g_real_munmap(m, mce.guard_bottom, PageSize).mem
             m2 == g_real_munmap(m1, mce.guard_top, PageSize).mem
             mce1 == [mce EXCEPT !.start = map_ptr, !.size = new_len]
         IN  {[mem |-> g.mem, store |-> [store EXCEPT ![i] = g.mce],
               unmaps |-> {guard_unmap(m, mce.guard_bottom),
                           guard_unmap(m1, mce.guard_top)}] :
                 g \in map_guard_pages(m2, mce1)}
    ELSE {[mem |-> m, store |-> store, unmaps |-> {}]}

mremap_call(addr, old_len, new_len) ==
    /\ ~aborted
    /\ nops < OpsBudget
    /\ \E r \in g_real_mremap(mem, addr, old_len, new_len) :
          \E i \in find_entry(addr) :
             LET call == Call("mremap", addr, old_len, 0, FALSE, -1, new_len, i) IN
             IF i # 0
             THEN \E o \in mremap_entry(i, r.mem, r.ret, new_len) :
                     Finish([call EXCEPT !.guard_unmaps = o.unmaps],
                            r.ret, r.ret, o.mem, o.store)
             ELSE Finish(call, r.ret, r.ret, r.mem, store)
    /\ nops' = nops + 1
    /\ UNCHANGED <<policy, threads>>

\* -------------------------------------- execute-only memory (MPK_SUPPORT)
\* memcpy_xom: src is non-NULL; src_size bytes are copied into a fresh
\* read-write mapping that is then made execute-only and cached.  Its pages
\* are of kind "xom", those of the mmap hook's mappings of kind "anon".
memcpy_xom_call(allocation_size, src_size) ==
    LET call == Call("memcpy_xom", 0, allocation_size, PROT_EXEC, FALSE, -1, 0, 0) IN
    /\ ~aborted
    /\ nops < OpsBudget
    /\ Len(store) < MaxRecords
    /\ IF ~policy.use_mapping_cache \/ src_size = 0 \/ src_size > allocation_size
       THEN /\ mem' = mem
            /\ store' = store
            /\ aborted' = FALSE
            /\ last' = Returned(call, MAP_FAILED, FALSE, 0)
       ELSE \E r \in g_real_mmap(mem, 0, allocation_size, PROT_READ + PROT_WRITE,
                                  FALSE, "xom") :
               IF r.ret = MAP_FAILED
               THEN Finish(call, MAP_FAILED, r.ret, r.mem, store)
               ELSE LET mce == [new_mapguard_cache_entry EXCEPT
                                   !.start = r.ret,
                                   !.size = allocation_size,
                                   !.immutable_prot = PROT_EXEC,
                                   !.current_prot = PROT_EXEC,
                                   !.xom_enabled = 1,
                                   !.cache_index = vector_push_index(store)]
                        x == g_real_mprotect(r.mem, r.ret, allocation_size, PROT_EXEC)
                    IN  IF x.ret # 0
                        THEN Finish(call, MAP_FAILED, r.ret,
                                    g_real_munmap(x.mem, r.ret, allocation_size).mem, store)
                        ELSE Finish(call, r.ret, r.ret, x.mem, Append(store, mce))
    /\ nops' = nops + 1
    /\ UNCHANGED <<policy, threads>>

\* munmap_xom: the entry found for addr leaves the cache; nothing is unmapped.
munmap_xom_call(addr, length) ==
    /\ ~aborted
    /\ nops < OpsBudget
    /\ \E i \in vector_for_each(store, addr, 1) :
          LET call == Call("munmap_xom", addr, length, 0, FALSE, -1, 0, i) IN
          /\ mem' = mem
          /\ aborted' = FALSE
          /\ IF i # 0
             THEN /\ store' = delete_and_free(store, i)
                  /\ last' = Returned(call, OK, FALSE, 0)
             ELSE /\ store' = store
                  /\ last' = Returned(call, ERROR, FALSE, 0)
    /\ nops' = nops + 1
    /\ UNCHANGED <<policy, threads>>

\* ------------------------------------------------------------ threads
\* What a thread inside munmap holds between its lookup and the rest of the
\* call: the arguments and the pointer vector_for_each returned.  held says
\* what the pointer refers to: "none" (NULL), "cached" (the entry at position
\* mce of the vector), "freed" (an entry another thread has passed to free(),
\* rec being what that memory held then) or "removed" (an entry that left the
\* vector without being freed, rec being the entry).
Threads == {1, 2}

IdleThread ==
    [pc |-> "idle", addr |-> 0, length |-> 0, mce |-> 0, held |-> "none",
     rec |-> new_mapguard_cache_entry]

\* What the pointer of thread state th refers to once the entry at position
\* removed (0: none) of the vector v has left it and the entry at position
\* released (0: none) has been freed.
retarget(th, v, removed, released) ==
    IF th.held # "cached" THEN th
    ELSE IF th.mce = released
    THEN [th EXCEPT !.held = "freed", !.rec = v[released], !.mce = 0]
    ELSE IF th.mce = removed
    THEN [th EXCEPT !.held = "removed", !.rec = v[removed], !.mce = 0]
    ELSE IF removed # 0 /\ removed < th.mce
    THEN [th EXCEPT !.mce = th.mce - 1]
    ELSE th

\* The position vector_delete_at(v, index) empties (0: none).
deleted_position(v, index) ==
    IF index \in 0..(Len(v) - 1) THEN index + 1 ELSE 0

\* munmap, first part (mapguard.c:206-207): vector_for_each hands the thread
\* a pointer to the entry for addr.  No lock is taken.
munmap_lookup(t, addr, length) ==
    /\ ~aborted
    /\ nops < OpsBudget
    /\ threads[t].pc = "idle"
    /\ \E i \in find_entry(addr) :
          threads' = [threads EXCEPT ![t] =
                         [pc |-> "munmap", addr |-> addr, length |-> length,
                          mce |-> IF i # 0 /\ store[i].freed THEN 0 ELSE i,
                          held |-> IF i = 0 THEN "none"
                                   ELSE IF store[i].freed THEN "freed" ELSE "cached",
                          rec |-> IF i # 0 /\ store[i].freed THEN store[i]
                                  ELSE new_mapguard_cache_entry]]
    /\ nops' = nops + 1
    /\ UNCHANGED <<policy, store, mem, last, aborted>>

\* munmap, second part (mapguard.c:209-253), through the pointer the thread
\* holds.  A pointer to a freed entry is read and written all the same: the
\* call then works on what that memory held when it was freed, or the
\* process is killed (the allocator's double-free check, a fault).
munmap_finish(t) ==
    LET th == threads[t]
        call == Call("munmap", th.addr, th.length, 0, FALSE, -1, 0, th.mce)
        others(removed, released) ==
            [u \in Threads |->
                IF u = t THEN IdleThread
                ELSE retarget(threads[u], store, removed, released)]
    IN
    /\ ~aborted
    /\ th.pc = "munmap"
    /\ \/ /\ th.held = "none"
          /\ LET r == g_real_munmap(mem, th.addr, th.length) IN
             Finish(call, r.ret, r.ret, r.mem, store)
          /\ threads' = others(0, 0)
       \/ /\ th.held = "cached"
          /\ \E o \in munmap_entry(th.mce, th.addr, th.length) :
                /\ Finish([call EXCEPT !.guard_unmaps = o.unmaps],
                          o.ret, o.ret, o.mem, o.store)
                /\ threads' =
                      IF o.deleted
                      THEN others(deleted_position(store, store[th.mce].cache_index),
                                  th.mce)
                      ELSE others(0, 0)
       \/ /\ th.held \in {"freed", "removed"}
          /\ \E o \in munmap_on(th.rec, mem, th.addr, th.length) :
                /\ Finish([call EXCEPT !.guard_unmaps = o.unmaps], o.ret, o.ret, o.mem,
                          IF o.deleted THEN vector_delete_at(store, th.rec.cache_index)
                          ELSE store)
                /\ threads' =
                      IF o.deleted
                      THEN others(deleted_position(store, th.rec.cache_index), 0)
                      ELSE others(0, 0)
       \/ /\ th.held = "freed"
          /\ mem' = mem
          /\ store' = store
          /\ aborted' = TRUE
          /\ last' = [call EXCEPT !.returned = FALSE]
          /\ threads' = others(0, 0)
    /\ UNCHANGED <<policy, nops>>

\* ------------------------------------------------------ specification
\* mapguard_ctor: the policy is read from the environment once; the cache
\* starts empty (vector_init) and nothing is mapped yet.
Policies ==
    [disallow_rwx : BOOLEAN, disallow_transition_to_x : BOOLEAN,
     disallow_transition_from_x : BOOLEAN, disallow_static_address : BOOLEAN,
     enable_guard_pages : BOOLEAN, panic_on_violation : BOOLEAN,
     use_mapping_cache : BOOLEAN]

mapguard_ctor ==
    /\ policy \in Policies
    /\ store = <<>>
    /\ mem = [q \in PageIds |-> FreePage]
    /\ last = Call("none", 0, 0, 0, FALSE, -1, 0, 0)
    /\ aborted = FALSE
    /\ nops = 0
    /\ threads = [t \in Threads |-> IdleThread]

Init == mapguard_ctor

Next ==
    \/ \E at \in Placements, length \in MapLens, prot \in Prots, fd \in Fds :
          mmap_call(at[1], length, prot, at[2], fd)
    \/ \E addr \in Addrs, length \in Lens : munmap_call(addr, length)
    \/ \E addr \in Addrs, len \in PageLens, prot \in Prots : mprotect_call(addr, len, prot)
    \/ \E addr \in Addrs, old_len \in PageLens, new_len \in PageLens :
          mremap_call(addr, old_len, new_len)
    \/ \E allocation_size \in MapLens, src_size \in SrcSizes :
          memcpy_xom_call(allocation_size, src_size)
    \/ \E addr \in Addrs : munmap_xom_call(addr, PageSize)

Spec == Init /\ [][Next]_vars

\* Two threads: munmap takes two steps per call, with the other thread's
\* steps in between; mmap, which follows no pointer into the cache, takes one.
\* The two transition switches play no part in mmap or munmap.
ThreadsPolicies ==
    {p \in DeepPolicies :
        ~p.disallow_transition_to_x /\ ~p.disallow_transition_from_x}

ThreadsInit == mapguard_ctor /\ policy \in ThreadsPolicies

ThreadsNext ==
    \/ \E at \in Placements, length \in MapLens, prot \in Prots, fd \in Fds :
          mmap_call(at[1], length, prot, at[2], fd)
    \/ \E t \in Threads, addr \in Addrs, length \in Lens : munmap_lookup(t, addr, length)
    \/ \E t \in Threads : munmap_finish(t)

ThreadsSpec == ThreadsInit /\ [][ThreadsNext]_vars

\* ================================================================ claims
Tracked(mce) == ~mce.freed /\ mce.xom_enabled = 0

Failed(call, failure) == ~call.returned \/ call.ret = failure

\* C1: with disallow_transition_to_x and the mapping cache on, an mprotect
\* that requests PROT_EXEC at an address inside a cache entry whose
\* immutable_prot holds PROT_WRITE fails (it returns ERROR, or the process is
\* aborted), whatever calls came before.
C1_ToXAlwaysDenied ==
    [][(/\ last'.op = "mprotect"
        /\ policy.disallow_transition_to_x
        /\ policy.use_mapping_cache
        /\ HasBit(last'.prot, PROT_EXEC)
        /\ \E i \in 1..Len(store) :
              /\ Tracked(store[i])
              /\ HasBit(store[i].immutable_prot, PROT_WRITE)
              /\ is_mapguard_entry_cached(store[i], last'.addr))
       => Failed(last', ERROR)]_vars

\* C2: with disallow_transition_to_x and the mapping cache on, no successful
\* mprotect gives PROT_EXEC to a mapped page of an anonymous mapping that was
\* ever writable.
C2_EverWritableNeverExec ==
    [][(/\ last'.op = "mprotect"
        /\ policy.disallow_transition_to_x
        /\ policy.use_mapping_cache
        /\ HasBit(last'.prot, PROT_EXEC)
        /\ last'.returned
        /\ last'.ret = OK)
       => \A p \in PagesOf(last'.addr, last'.length) :
             ~(mem[p].kind = "anon" /\ mem[p].everW)]_vars

\* C3: with disallow_transition_from_x and the mapping cache on, an mprotect
\* that requests PROT_WRITE at an address inside a cache entry whose
\* immutable_prot holds PROT_EXEC fails.
C3_FromXAlwaysDenied ==
    [][(/\ last'.op = "mprotect"
        /\ policy.disallow_transition_from_x
        /\ policy.use_mapping_cache
        /\ HasBit(last'.prot, PROT_WRITE)
        /\ \E i \in 1..Len(store) :
              /\ Tracked(store[i])
              /\ HasBit(store[i].immutable_prot, PROT_EXEC)
              /\ is_mapguard_entry_cached(store[i], last'.addr))
       => Failed(last', ERROR)]_vars

IsRwxCreate(call) ==
    /\ call.op = "mmap"
    /\ call.fd = -1
    /\ HasBit(call.prot, PROT_WRITE)
    /\ HasBit(call.prot, PROT_EXEC)
    /\ policy.disallow_rwx

\* C4 as stated: an anonymous mmap with PROT_WRITE and PROT_EXEC under
\* disallow_rwx returns MAP_FAILED, without a call of the real mmap and with
\* the cache unchanged, for every setting of the other switches.
C4_RwxCreateReturnsFailure ==
    [][IsRwxCreate(last')
       => (/\ last'.returned
           /\ last'.ret = MAP_FAILED
           /\ ~last'.real
           /\ mem' = mem
           /\ store' = store)]_vars

\* C4 (amended): such an mmap never maps anything and never changes the
\* cache; it returns MAP_FAILED when panic_on_violation is off and aborts the
\* process, returning nothing, when panic_on_violation is on.
C4_RwxCreateDenied ==
    [][IsRwxCreate(last')
       => (/\ ~last'.real
           /\ mem' = mem
           /\ store' = store
           /\ IF policy.panic_on_violation
              THEN ~last'.returned /\ aborted'
              ELSE last'.returned /\ last'.ret = MAP_FAILED /\ ~aborted')]_vars

C4_Witness ==
    /\ IsRwxCreate(last)
    /\ last.returned
    /\ last.ret = MAP_FAILED
    /\ Len(store) > 0
    /\ FreeRuns(mem, NumPages(last.length)) # {}

\* C5: a file-backed mmap is handed to the real mmap whatever the policy and
\* the arguments: its result and its effect on the address space are those of
\* the real call, no cache entry is inserted and no guard page is mapped.
C5_FileBackedPassThrough ==
    [][(last'.op = "mmap" /\ last'.fd # -1)
       => (/\ last'.returned
           /\ ~aborted'
           /\ store' = store
           /\ [ret |-> last'.ret, mem |-> mem'] \in
                 g_real_mmap(mem, last'.addr, last'.length, last'.prot, last'.fixed, "file")
           /\ \A p \in PageIds : mem'[p].kind = "guard" => mem[p].kind = "guard")]_vars

C5_Witness ==
    /\ last.op = "mmap"
    /\ last.fd # -1
    /\ last.ret # MAP_FAILED
    /\ last.addr # 0
    /\ HasBit(last.prot, PROT_WRITE) /\ HasBit(last.prot, PROT_EXEC)
    /\ policy.disallow_rwx
    /\ policy.disallow_static_address
    /\ policy.enable_guard_pages
    /\ policy.use_mapping_cache
    /\ Len(store) > 0

\* C6: after a munmap that matches a cache entry exactly (addr = start and
\* length = size) the entry's guard pages are unmapped, the entry has left
\* the cache and a lookup of the same address finds no entry.
C6_ExactRemoveForgets ==
    [][(/\ last'.op = "munmap"
        /\ last'.found # 0
        /\ Tracked(store[last'.found])
        /\ store[last'.found].start = last'.addr
        /\ store[last'.found].size = last'.length)
       => (/\ Len(store') = Len(store) - 1
           /\ ~GuardMapped(mem', store[last'.found].guard_bottom)
           /\ ~GuardMapped(mem', store[last'.found].guard_top)
           /\ vector_for_each(store', last'.addr, 1) = {0})]_vars

\* C7: a successful munmap(addr, k) of the tail of a cache entry (addr > start,
\* addr + k = start + size, 0 < k < size) leaves the entry with size - k and,
\* with guard pages enabled, with its top guard page mapped at the new upper
\* boundary start + (size - k).
C7_TrailingRemove ==
    [][(/\ last'.op = "munmap"
        /\ last'.found # 0
        /\ last'.ret = OK
        /\ policy.enable_guard_pages
        /\ Tracked(store[last'.found])
        /\ last'.addr > store[last'.found].start
        /\ last'.addr + last'.length = store[last'.found].start + store[last'.found].size
        /\ last'.length > 0
        /\ last'.length < store[last'.found].size)
       => LET old == store[last'.found]
              new == store'[last'.found]
          IN  /\ new.start = old.start
              /\ new.size = old.size - last'.length
              /\ new.guard_top = ROUND_UP_PAGE(old.start + old.size - last'.length)
              /\ GuardMapped(mem', new.guard_top)]_vars

\* C8: after a successful munmap(B, k) with 0 < k < L, a cache entry that had
\* start B and size L has start B + k and size L - k, keeps its permissions,
\* and its bottom guard page is mapped at the page boundary below B + k.
C8_LeadingRemove ==
    [][(/\ last'.op = "munmap"
        /\ last'.ret = OK
        /\ last'.length > 0)
       => \A i \in 1..Len(store) :
             (/\ Tracked(store[i])
              /\ store[i].start = last'.addr
              /\ last'.length < store[i].size)
             => \E j \in 1..Len(store') :
                   /\ store'[j].start = store[i].start + last'.length
                   /\ store'[j].size = store[i].size - last'.length
                   /\ store'[j].immutable_prot = store[i].immutable_prot
                   /\ store'[j].guard_bottom = get_base_page(store'[j].start - 1)
                   /\ GuardMapped(mem', store'[j].guard_bottom)]_vars

\* C9: when the real mremap succeeds on an address a cache entry covers, that
\* entry's start is the returned address and its size is the new length.
C9_RelocateUpdatesRecord ==
    [][(/\ last'.op = "mremap"
        /\ last'.found # 0
        /\ last'.ret # MAP_FAILED
        /\ Tracked(store[last'.found]))
       => (/\ store'[last'.found].start = last'.ret
           /\ store'[last'.found].size = last'.new_len)]_vars

RealFailed(call) ==
    /\ call.real
    /\ call.real_ret = (IF call.op \in {"mmap", "mremap"} THEN MAP_FAILED ELSE ERROR)

\* C10: when the real primitive fails, its failure value is returned and the
\* cache is exactly as it was before the call.
C10_RealFailureLeavesCache ==
    [][RealFailed(last') => (last'.ret = last'.real_ret /\ store' = store)]_vars

BitSuperset(a, b) ==
    \A bit \in {PROT_READ, PROT_WRITE, PROT_EXEC} : HasBit(b, bit) => HasBit(a, bit)

\* C12: immutable_prot of a cache entry never loses a bit: a call that keeps
\* the entries in place leaves every entry with a superset of its bits, and
\* a call that deletes an entry leaves the other entries as they were.
C12_ImmutableProtMonotone ==
    [][IF Len(store') >= Len(store)
       THEN \A i \in 1..Len(store) :
               (~store[i].freed /\ ~store'[i].freed)
               => BitSuperset(store'[i].immutable_prot, store[i].immutable_prot)
       ELSE \A j \in 1..Len(store') :
               ~store'[j].freed
               => \E i \in 1..Len(store) :
                     /\ store'[j].start = store[i].start
                     /\ store'[j].size = store[i].size
                     /\ BitSuperset(store'[j].immutable_prot, store[i].immutable_prot)]_vars

C12_Witness ==
    /\ last.op = "mprotect"
    /\ last.ret = OK
    /\ last.found # 0
    /\ last.found <= Len(store)
    /\ HasBit(store[last.found].immutable_prot, PROT_EXEC)
    /\ ~HasBit(store[last.found].current_prot, PROT_EXEC)

\* The code's conditions for denying an mprotect, on the entry the lookup
\* returned.
IsDeniedReprotect(call) ==
    /\ call.op = "mprotect"
    /\ \/ policy.disallow_rwx /\ HasBit(call.prot, PROT_WRITE) /\ HasBit(call.prot, PROT_EXEC)
       \/ /\ policy.use_mapping_cache
          /\ call.found # 0
          /\ Tracked(store[call.found])
          /\ \/ /\ policy.disallow_transition_to_x
                /\ HasBit(call.prot, PROT_EXEC)
                /\ HasBit(store[call.found].immutable_prot, PROT_WRITE)
             \/ /\ policy.disallow_transition_from_x
                /\ HasBit(call.prot, PROT_WRITE)
                /\ HasBit(store[call.found].immutable_prot, PROT_EXEC)

C14_CacheIndexIsPosition ==
    \A i \in 1..Len(store) : store[i].cache_index = i - 1

Overlap(a, b) ==
    a.start < b.start + b.size /\ b.start < a.start + a.size

\* C15: no two cache entries have the same start, and the ranges
\* [start, start + size) of distinct entries are disjoint.
C15_RecordsDisjoint ==
    \A i, j \in 1..Len(store) :
        (i < j /\ ~store[i].freed /\ ~store[j].freed)
        => (store[i].start # store[j].start /\ ~Overlap(store[i], store[j]))

GuardsOf(mce) == {mce.guard_bottom, mce.guard_top} \ {0, MAP_FAILED}

\* C16: a guard page address held by a cache entry is outside
\* [start, start + size) of every cache entry.
C16_GuardOutsideRecords ==
    \A i, j \in 1..Len(store) :
        \A g \in GuardsOf(store[i]) :
            ~(store[j].start <= g /\ g < store[j].start + store[j].size)

\* C18: an anonymous mmap that succeeds with the cache and guard pages on
\* returns the real address and appends an entry for it; a guard page that
\* could not be mapped leaves the entry's guard field absent (0).
C18_GuardFailureLeavesNone ==
    [][(/\ last'.op = "mmap"
        /\ last'.fd = -1
        /\ last'.real
        /\ last'.real_ret # MAP_FAILED
        /\ policy.use_mapping_cache
        /\ policy.enable_guard_pages)
       => (/\ last'.ret = last'.real_ret
           /\ Len(store') = Len(store) + 1
           /\ store'[Len(store')].start = last'.ret
           /\ store'[Len(store')].guard_bottom # MAP_FAILED
           /\ store'[Len(store')].guard_top # MAP_FAILED)]_vars

\* C19: immutable_prot of every cache entry holds every bit of its
\* current_prot.
C19_ImmutableCoversCurrent ==
    \A i \in 1..Len(store) :
        ~store[i].freed => BitSuperset(store[i].immutable_prot, store[i].current_prot)

C19_Witness ==
    /\ last.op = "mprotect"
    /\ last.ret = OK
    /\ last.found # 0
    /\ last.found <= Len(store)
    /\ last.length < store[last.found].size
    /\ store[last.found].current_prot = last.prot
    /\ store[last.found].immutable_prot # last.prot
    /\ \E i \in 1..Len(store) : store[i].xom_enabled = 1

\* C20: with enable_guard_pages off no guard page is mapped and the guard
\* fields of every cache entry are absent (0).
C20_NoGuardsWhenDisabled ==
    ~policy.enable_guard_pages
    => (/\ \A i \in 1..Len(store) :
              store[i].guard_bottom = 0 /\ store[i].guard_top = 0
        /\ \A p \in PageIds : mem[p].kind # "guard")

\* C17: every real munmap issued for a guard page is given the address of a
\* guard page that is mapped: never 0, never MAP_FAILED, never the address of
\* a guard page that an earlier guard removal unmapped.
C17_GuardUnmapsOnlyLiveGuards ==
    [][\A u \in last'.guard_unmaps :
          u[1] # 0 /\ u[1] # MAP_FAILED /\ u[2]]_vars

\* C11: no thread reads or writes, in the part of munmap that follows its
\* lookup, an entry that another thread has removed and freed since.
C11_NoUseAfterFree ==
    [][\A t \in Threads :
          (threads[t].pc = "munmap" /\ threads'[t].pc = "idle")
          => threads[t].held # "freed"]_vars

\* C21: the size of a cache entry is always strictly positive, and a munmap
\* that leaves the entry in the cache never makes its size larger than it
\* was (mce->size -= length does not wrap around and does not reach 0).
C21_SizeNeverWraps ==
    [][\A i \in 1..Len(store') :
          Tracked(store'[i])
          => /\ store'[i].size > 0
             /\ (last'.op = "munmap" /\ Len(store') = Len(store))
                => store'[i].size <= store[i].size]_vars

====
